---------------------------- MODULE Spec2Model ----------------------------
(* Model of the fabricant TUI workflow controller (cmd/ui.go): the Bubble *)
(* Tea model, its Update function, the commands it dispatches and the     *)
(* five-step execution sequence of executeFlowCmd.                        *)
(*                                                                        *)
(* Strings the program manipulates (the two text inputs, the names taken  *)
(* from them) are sequences of one-rune strings, so that concatenation,   *)
(* prefix tests and the CharLimit truncation of the text inputs are       *)
(* computed as the program computes them. Strings that are only carried   *)
(* (identifiers, error texts, labels) are plain strings. A Go pointer is  *)
(* a record with a field "nil".                                           *)
EXTENDS Integers, Sequences, FiniteSets, TLC

VARIABLES
    prog,                 \* "new" | "running" | "exited": the tea.Program
    state,                \* m.state
    err,                  \* m.err
    successMsg,           \* m.successMsg
    executionInfos,       \* m.executionInfos
    clients,              \* m.authClient / m.fabricClient / m.devopsClient set
    workspaces,           \* m.workspaces
    lstItems,             \* m.workspaceLst: its items
    lstCursor,            \* m.workspaceLst: index of the highlighted item
    lstSize,              \* m.workspaceLst: <<width, height>>
    branchInput,          \* m.branchInput: its value
    wsInput,              \* m.wsInput: its value
    selectedDevWorkspace, \* m.selectedDevWorkspace
    newBranchName,        \* m.newBranchName
    newWorkspaceName,     \* m.newWorkspaceName
    tickPending,          \* a spinner.TickMsg is scheduled
    inbox,                \* messages sent to the program, not yet handled
    calls,                \* the remote calls issued so far, each with its result
    flow,                 \* the locals of the running executeFlowCmd
    edits                 \* number of text-editing key presses so far

vars == <<prog, state, err, successMsg, executionInfos, clients, workspaces,
          lstItems, lstCursor, lstSize, branchInput, wsInput,
          selectedDevWorkspace, newBranchName, newWorkspaceName, tickPending,
          inbox, calls, flow, edits>>

-----------------------------------------------------------------------------
(* Bounds of the model *)

\* text-editing key presses (typed runes, pastes, deletions) per session
MaxEdits == 2

-----------------------------------------------------------------------------
(* sessionState *)

stateInit == "Init"
stateLoadingWorkspaces == "LoadingWorkspaces"
stateSelectWorkspace == "SelectWorkspace"
stateLoadingGit == "LoadingGitLink"
stateEnterBranch == "EnterBranchName"
stateEnterWorkspace == "EnterWorkspaceName"
stateExecuting == "Executing"
stateDone == "Done"
stateError == "Error"

\* the iota order of the constants
StateOrder ==
    <<stateInit, stateLoadingWorkspaces, stateSelectWorkspace, stateLoadingGit,
      stateEnterBranch, stateEnterWorkspace, stateExecuting, stateDone,
      stateError>>

StateIndex(s) == CHOOSE i \in 1..Len(StateOrder) : StateOrder[i] = s

-----------------------------------------------------------------------------
(* Strings as sequences of runes *)

EmptyStr == <<>>

\* bi.CharLimit = 100, wsi.CharLimit = 100
CharLimit == 100

\* "Feature - "
FeaturePrefix == <<"F", "e", "a", "t", "u", "r", "e", " ", "-", " ">>

\* "refs/heads/"
RefsHeads == <<"r", "e", "f", "s", "/", "h", "e", "a", "d", "s", "/">>

Truncate(s, n) == IF Len(s) > n THEN SubSeq(s, 1, n) ELSE s

\* textinput.Model.SetValue: the value is cut to CharLimit runes
SetValue(s) == Truncate(s, CharLimit)

\* textinput.Model.Update on typed or pasted runes (cursor at the end): the
\* runes that still fit under CharLimit are appended
InsertRunes(value, runes) ==
    IF CharLimit - Len(value) <= 0
    THEN value
    ELSE value \o Truncate(runes, CharLimit - Len(value))

\* textinput.Model.Update on backspace (cursor at the end)
DeleteLast(value) ==
    IF value = EmptyStr THEN value ELSE SubSeq(value, 1, Len(value) - 1)

\* the shortest text whose "Feature - " form does not fit the input
LongText == [i \in 1..(CharLimit - Len(FeaturePrefix) + 1) |-> "a"]

\* "main"
MainBranch == <<"m", "a", "i", "n">>

\* what the user types or pastes in one key message
TypedTexts == {<<"x">>, MainBranch, RefsHeads, LongText}

\* the editing keys of a text input: runes, backspace, ctrl+u
EditKeys ==
    [key : {"runes"}, runes : TypedTexts]
        \cup [key : {"backspace", "ctrl+u"}, runes : {EmptyStr}]

\* textinput.Model.Update on an editing key
EditValue(value, k) ==
    CASE k.key = "runes" -> InsertRunes(value, k.runes)
      [] k.key = "backspace" -> DeleteLast(value)
      [] k.key = "ctrl+u" -> EmptyStr

-----------------------------------------------------------------------------
(* Errors, workspaces, git-link descriptors *)

\* a nil error
NoErr == [nil |-> TRUE, label |-> "", cause |-> ""]

\* an error returned as it came
BareErr(cause) == [nil |-> FALSE, label |-> "", cause |-> cause]

\* fmt.Errorf(label + ": %w", cause)
Errorf(label, cause) == [nil |-> FALSE, label |-> label, cause |-> cause]

\* fmt.Errorf("selected workspace does not have git integration (or unsupported provider)")
NoGitIntegrationErr ==
    [nil |-> FALSE,
     label |-> "selected workspace does not have git integration (or unsupported provider)",
     cause |-> ""]

\* a nil *fabric.GitProviderDetails
NilDetails ==
    [nil |-> TRUE, OrganizationName |-> "", ProjectName |-> "",
     RepositoryName |-> "", BranchName |-> EmptyStr, DirectoryName |-> "",
     GitProviderType |-> ""]

\* fabric.GitProviderDetails
GitProviderDetails(branch, provider) ==
    [nil |-> FALSE, OrganizationName |-> "A", ProjectName |-> "P",
     RepositoryName |-> "R", BranchName |-> branch, DirectoryName |-> "/",
     GitProviderType |-> provider]

\* what GET /workspaces/{id}/git/connection can answer with
GitConnectionResults ==
    {NilDetails, GitProviderDetails(MainBranch, ""),
     GitProviderDetails(MainBranch, "AzureDevOps")}

\* a nil *fabric.Workspace
NilWorkspace ==
    [nil |-> TRUE, Id |-> "", DisplayName |-> "", CapacityId |-> "",
     GitProviderDetails |-> NilDetails]

\* fabric.Workspace, as ListWorkspaces decodes it
Workspace(id, name, capacity) ==
    [nil |-> FALSE, Id |-> id, DisplayName |-> name, CapacityId |-> capacity,
     GitProviderDetails |-> NilDetails]

WsDev == Workspace("ws-dev", "Dev", "cap-1")
WsTest == Workspace("ws-test", "Test", "")

\* what GET /workspaces can answer with
WorkspaceLists == {<<>>, <<WsDev>>, <<WsDev, WsTest>>}

\* terminal sizes of a tea.WindowSizeMsg
WindowSizes == {<<80, 24>>, <<120, 40>>}

-----------------------------------------------------------------------------
(* Messages *)

Msg(type) ==
    [type |-> type, err |-> NoErr, workspaces |-> <<>>, details |-> NilDetails,
     text |-> ""]

errMsg(e) == [Msg("errMsg") EXCEPT !.err = e]
clientsReadyMsg == Msg("clientsReadyMsg")
workspacesMsg(ws) == [Msg("workspacesMsg") EXCEPT !.workspaces = ws]
gitConnectionMsg(d) == [Msg("gitConnectionMsg") EXCEPT !.details = d]
executionStepMsg(info) == [Msg("executionStepMsg") EXCEPT !.text = info]
executionDoneMsg(m) == [Msg("executionDoneMsg") EXCEPT !.text = m]
\* tea.QuitMsg, what the tea.Quit command yields
QuitMsg == Msg("QuitMsg")

-----------------------------------------------------------------------------
(* Remote calls *)

\* a remote call as issued; res is "pending" until it returns "ok" or "err"
Call(op, args) == [op |-> op, args |-> args, res |-> "pending"]

\* the calls whose result has not come back
Outstanding == {i \in DOMAIN calls : calls[i].res = "pending"}

\* the five calls of executeFlowCmd, in the order of its text
FlowOps ==
    <<"GetBranchObjectId", "CreateBranch", "CreateWorkspace",
      "ConnectWorkspaceToGit", "UpdateWorkspaceFromGit">>

\* StepLabel with the label of step 2 pasted into step 3 and not changed
StepLabel_CopyPaste(k) ==
    CASE k = 1 -> "getting dev branch commit"
      [] k = 2 -> "creating feature branch"
      [] k = 3 -> "creating feature branch"
      [] k = 4 -> "connecting git"
      [] k = 5 -> "updating from git"

\* the prefix executeFlowCmd wraps the error of its k-th call with
StepLabel(k) ==
    CASE k = 1 -> "getting dev branch commit"
      [] k = 2 -> "creating feature branch"
      [] k = 3 -> "creating workspace"
      [] k = 4 -> "connecting git"
      [] k = 5 -> "updating from git"

\* the locals of executeFlowCmd; step = 0 when it is not running; m is the
\* copy of the model the method value was bound to
IdleFlow ==
    [step |-> 0, gitInfo |-> NilDetails, parent |-> NilWorkspace,
     newBranchName |-> EmptyStr, newWorkspaceName |-> EmptyStr,
     baseCommitId |-> "", newWsId |-> ""]

\* the id of the created workspace
NewWsId == "ws-new"

\* strings.HasPrefix
HasPrefix(s, prefix) ==
    Len(s) >= Len(prefix) /\ SubSeq(s, 1, Len(prefix)) = prefix

\* strings.TrimPrefix
TrimPrefix(s, prefix) ==
    IF HasPrefix(s, prefix) THEN SubSeq(s, Len(prefix) + 1, Len(s)) ELSE s

\* FullBranchName with the HasPrefix test left out
FullBranchName_AlwaysPrefixes(newBranch) == RefsHeads \o newBranch

\* CreateBranch: the ref name it sends
FullBranchName(newBranch) ==
    IF ~HasPrefix(newBranch, RefsHeads) THEN RefsHeads \o newBranch ELSE newBranch

\* the error text of a failed facade call
FacadeError(op) ==
    IF op \in {"GetBranchObjectId", "CreateBranch"}
    THEN "devops API error"
    ELSE "fabric API error"

\* branches of the repository beside "main": "main-old", "dev"
MainOld == MainBranch \o <<"-", "o", "l", "d">>
DevBranch == <<"d", "e", "v">>

\* the commits that "main", "main-old" and "dev" point to
BaseCommit == "c0ffee"
OldCommit == "0ddba11"
DevCommit == "decade"

\* devops.GitRef
GitRef(name, objectId) == [Name |-> RefsHeads \o name, ObjectId |-> objectId]

\* the heads the repository can hold, in the order the server lists them
Repositories ==
    { <<>>,
      <<GitRef(DevBranch, DevCommit)>>,
      <<GitRef(MainBranch, BaseCommit)>>,
      <<GitRef(DevBranch, DevCommit), GitRef(MainBranch, BaseCommit),
        GitRef(MainOld, OldCommit)>>,
      <<GitRef(MainOld, OldCommit), GitRef(MainBranch, BaseCommit)>>,
      <<GitRef(MainOld, OldCommit)>> }

\* GET .../refs?filter=heads/<filterName>: the refs whose name starts with
\* "refs/heads/<filterName>", as GitRefsResponse.Value (Count is its length)
RefsResponse(refs, filterName) ==
    SelectSeq(refs, LAMBDA r : HasPrefix(r.Name, RefsHeads \o filterName))

\* GetBranchObjectId with "res.Count == 0" answered by an empty id
GetBranchObjectId_EmptyIdWhenNoRef(refs, branchName) ==
    LET res == RefsResponse(refs, TrimPrefix(branchName, RefsHeads))
    IN  [err |-> "", id |-> IF Len(res) = 0 THEN "" ELSE res[1].ObjectId]

\* devops.Client.GetBranchObjectId once doRequest has returned nil: the error
\* ("" for nil) and the object id it returns
GetBranchObjectId(refs, branchName) ==
    LET res == RefsResponse(refs, TrimPrefix(branchName, RefsHeads))
    IN  IF Len(res) = 0
        THEN [err |-> "branch not found", id |-> ""]
        ELSE [err |-> "", id |-> res[1].ObjectId]

\* WorkspaceDescription naming the branch of the git link
WorkspaceDescription_SourceBranch(f) ==
    <<"Feature workspace for ", f.gitInfo.BranchName,
      " (Parent: ", f.parent.DisplayName, ")">>

\* "Feature workspace for " + m.newBranchName + " (Parent: " +
\* m.selectedDevWorkspace.DisplayName + ")", as its parts
WorkspaceDescription(f) ==
    <<"Feature workspace for ", f.newBranchName,
      " (Parent: ", f.parent.DisplayName, ")">>

\* SourceAfterLink with "newGitInfo := gitInfo": the pointer, not the struct
SourceAfterLink_Aliased(source, newBranch) ==
    [source EXCEPT !.GitProviderDetails.BranchName = newBranch]

\* "newGitInfo := *gitInfo; newGitInfo.BranchName = m.newBranchName" writes
\* to a copy: what it leaves in *m.selectedDevWorkspace
SourceAfterLink(source, newBranch) == source

\* the k-th call of executeFlowCmd, from its locals f
FlowCall(k, f) ==
    CASE k = 1 ->
           Call("GetBranchObjectId",
                [org |-> f.gitInfo.OrganizationName,
                 project |-> f.gitInfo.ProjectName,
                 repo |-> f.gitInfo.RepositoryName,
                 branchName |-> f.gitInfo.BranchName])
      [] k = 2 ->
           Call("CreateBranch",
                [org |-> f.gitInfo.OrganizationName,
                 project |-> f.gitInfo.ProjectName,
                 repo |-> f.gitInfo.RepositoryName,
                 name |-> FullBranchName(f.newBranchName),
                 newObjectId |-> f.baseCommitId])
      [] k = 3 ->
           Call("CreateWorkspace",
                [DisplayName |-> f.newWorkspaceName,
                 Description |-> WorkspaceDescription(f),
                 CapacityId |-> f.parent.CapacityId])
      [] k = 4 ->
           Call("ConnectWorkspaceToGit",
                [workspaceId |-> f.newWsId,
                 details |-> [f.gitInfo EXCEPT !.BranchName = f.newBranchName]])
      [] k = 5 ->
           Call("UpdateWorkspaceFromGit", [workspaceId |-> f.newWsId])

\* FlowStops with the error of CreateWorkspace left unchecked
FlowStops_UncheckedCreateWorkspace(k, res) == res = "err" /\ k # 3

\* FlowStops with the error of UpdateWorkspaceFromGit left unchecked
FlowStops_UncheckedUpdate(k, res) == res = "err" /\ k # 5

\* executeFlowCmd: "if err != nil { return errMsg{...} }" after its k-th call
FlowStops(k, res) == res = "err"

\* executeFlowCmd: what its k-th call leaves in the locals
FlowAfter(k, f, id) ==
    CASE k = 1 -> [f EXCEPT !.step = 2, !.baseCommitId = id]
      [] k = 3 -> [f EXCEPT !.step = 4, !.newWsId = NewWsId]
      [] OTHER -> [f EXCEPT !.step = k + 1]

-----------------------------------------------------------------------------
(* Update: its decisions *)

\* NextState with the branch name confirmation dispatching at once
NextState_SkipsWorkspaceName(trigger) ==
    CASE trigger = "errMsg" -> stateError
      [] trigger = "clientsReadyMsg" -> stateLoadingWorkspaces
      [] trigger = "workspacesMsg" -> stateSelectWorkspace
      [] trigger = "noGitIntegration" -> stateError
      [] trigger = "gitConnectionMsg" -> stateEnterBranch
      [] trigger = "executionDoneMsg" -> stateDone
      [] trigger = "workspaceSelected" -> stateLoadingGit
      [] trigger = "branchNamed" -> stateExecuting
      [] trigger = "workspaceNamed" -> stateExecuting

\* NextState with "m.state = stateLoadingGit" forgotten
NextState_StaysInSelect(trigger) ==
    CASE trigger = "errMsg" -> stateError
      [] trigger = "clientsReadyMsg" -> stateLoadingWorkspaces
      [] trigger = "workspacesMsg" -> stateSelectWorkspace
      [] trigger = "noGitIntegration" -> stateError
      [] trigger = "gitConnectionMsg" -> stateEnterBranch
      [] trigger = "executionDoneMsg" -> stateDone
      [] trigger = "workspaceSelected" -> stateSelectWorkspace
      [] trigger = "branchNamed" -> stateEnterWorkspace
      [] trigger = "workspaceNamed" -> stateExecuting

\* NextState with errMsg returning to the workspace list
NextState_ErrMsgToSelect(trigger) ==
    CASE trigger = "errMsg" -> stateSelectWorkspace
      [] trigger = "clientsReadyMsg" -> stateLoadingWorkspaces
      [] trigger = "workspacesMsg" -> stateSelectWorkspace
      [] trigger = "noGitIntegration" -> stateError
      [] trigger = "gitConnectionMsg" -> stateEnterBranch
      [] trigger = "executionDoneMsg" -> stateDone
      [] trigger = "workspaceSelected" -> stateLoadingGit
      [] trigger = "branchNamed" -> stateEnterWorkspace
      [] trigger = "workspaceNamed" -> stateExecuting

\* NextState with the selection going to the branch input at once
NextState_SelectSkipsLoading(trigger) ==
    CASE trigger = "errMsg" -> stateError
      [] trigger = "clientsReadyMsg" -> stateLoadingWorkspaces
      [] trigger = "workspacesMsg" -> stateSelectWorkspace
      [] trigger = "noGitIntegration" -> stateError
      [] trigger = "gitConnectionMsg" -> stateEnterBranch
      [] trigger = "executionDoneMsg" -> stateDone
      [] trigger = "workspaceSelected" -> stateEnterBranch
      [] trigger = "branchNamed" -> stateEnterWorkspace
      [] trigger = "workspaceNamed" -> stateExecuting

\* the m.state assignments of Update, by what triggers them
NextState(trigger) ==
    CASE trigger = "errMsg" -> stateError
      [] trigger = "clientsReadyMsg" -> stateLoadingWorkspaces
      [] trigger = "workspacesMsg" -> stateSelectWorkspace
      [] trigger = "noGitIntegration" -> stateError
      [] trigger = "gitConnectionMsg" -> stateEnterBranch
      [] trigger = "executionDoneMsg" -> stateDone
      [] trigger = "workspaceSelected" -> stateLoadingGit
      [] trigger = "branchNamed" -> stateEnterWorkspace
      [] trigger = "workspaceNamed" -> stateExecuting

\* GitConnectionUsable with only the nil test
GitConnectionUsable_NilOnly(details) == ~details.nil

\* GitConnectionUsable with the whole test left out
GitConnectionUsable_Always(details) == TRUE

\* gitConnectionMsg: the negation of
\* msg.details == nil || msg.details.GitProviderType == ""
GitConnectionUsable(details) ==
    ~(details.nil \/ details.GitProviderType = "")

\* NameAccepted with the emptiness test left out
NameAccepted_Always(name) == TRUE

\* NameAccepted as "len(name) >= 0", off by one from "len(name) > 0"
NameAccepted_LenAtLeastZero(name) == Len(name) >= 0

\* m.newBranchName != "", m.newWorkspaceName != ""
NameAccepted(name) == name # EmptyStr

\* StateCase with stateError listed with stateEnterWorkspace
StateCase_ErrorRetries(st) ==
    CASE st \in {stateInit, stateLoadingWorkspaces, stateLoadingGit,
                 stateExecuting} -> "spinner"
      [] st = stateSelectWorkspace -> "select"
      [] st = stateEnterBranch -> "branch"
      [] st \in {stateEnterWorkspace, stateError} -> "workspace"
      [] OTHER -> "none"

\* StateCase with stateDone listed with stateEnterWorkspace
StateCase_DoneRetries(st) ==
    CASE st \in {stateInit, stateLoadingWorkspaces, stateLoadingGit,
                 stateExecuting} -> "spinner"
      [] st = stateSelectWorkspace -> "select"
      [] st = stateEnterBranch -> "branch"
      [] st \in {stateEnterWorkspace, stateDone} -> "workspace"
      [] OTHER -> "none"

\* the case of "switch m.state" that handles a message in state st
StateCase(st) ==
    CASE st \in {stateInit, stateLoadingWorkspaces, stateLoadingGit,
                 stateExecuting} -> "spinner"
      [] st = stateSelectWorkspace -> "select"
      [] st = stateEnterBranch -> "branch"
      [] st = stateEnterWorkspace -> "workspace"
      [] OTHER -> "none"

\* m.workspaceLst.SelectedItem(): the item under the cursor, nil if none
SelectedItem ==
    IF lstCursor < Len(lstItems) THEN lstItems[lstCursor + 1] ELSE NilWorkspace

\* list.Model: cursor up and down, no wrapping
MoveCursor(cursor, n, key) ==
    CASE key = "down" -> IF cursor + 1 < n THEN cursor + 1 ELSE cursor
      [] key = "up" -> IF cursor > 0 THEN cursor - 1 ELSE cursor

\* lipgloss.NewStyle().Margin(1, 2).GetFrameSize()
FrameH == 4
FrameV == 2

-----------------------------------------------------------------------------
(* The program *)

\* initialModel(), before tea.Program.Run
Init ==
    /\ prog = "new"
    /\ state = stateInit
    /\ err = NoErr
    /\ successMsg = ""
    /\ executionInfos = <<>>
    /\ clients = FALSE
    /\ workspaces = <<>>
    /\ lstItems = <<>>
    /\ lstCursor = 0
    /\ lstSize = <<0, 0>>
    /\ branchInput = EmptyStr
    /\ wsInput = EmptyStr
    /\ selectedDevWorkspace = NilWorkspace
    /\ newBranchName = EmptyStr
    /\ newWorkspaceName = EmptyStr
    /\ tickPending = FALSE
    /\ inbox = {}
    /\ calls = <<>>
    /\ flow = IdleFlow
    /\ edits = 0

\* the fields of the model that only Update's message cases assign
session == <<state, err, successMsg, executionInfos, clients, workspaces,
             selectedDevWorkspace, newBranchName, newWorkspaceName>>
widgets == <<lstItems, lstCursor, lstSize, branchInput, wsInput>>

\* model.Init: tea.Batch(m.spinner.Tick, initClientsCmd)
ModelInit ==
    /\ prog = "new"
    /\ prog' = "running"
    /\ tickPending' = TRUE
    /\ calls' = Append(calls, Call("NewAuthenticator", <<>>))
    /\ UNCHANGED <<session, widgets, inbox, flow, edits>>

\* the result of call i comes back
Returned(i, res) == [calls EXCEPT ![i].res = res]

\* initClientsCmd returns
InitClientsCmd ==
    /\ prog = "running"
    /\ \E i \in Outstanding, res \in {"ok", "err"} :
         /\ calls[i].op = "NewAuthenticator"
         /\ calls' = Returned(i, res)
         /\ inbox' = inbox \cup
              {IF res = "err"
               THEN errMsg(Errorf("failed to create Azure CLI credential",
                                  "azidentity"))
               ELSE clientsReadyMsg}
    /\ UNCHANGED <<prog, session, widgets, tickPending, flow, edits>>

\* fetchWorkspacesCmd returns
FetchWorkspacesCmd ==
    /\ prog = "running"
    /\ \E i \in Outstanding :
         /\ calls[i].op = "ListWorkspaces"
         /\ \/ /\ calls' = Returned(i, "err")
               /\ inbox' = inbox \cup {errMsg(BareErr(FacadeError(calls[i].op)))}
            \/ \E ws \in WorkspaceLists :
                 /\ calls' = Returned(i, "ok")
                 /\ inbox' = inbox \cup {workspacesMsg(ws)}
    /\ UNCHANGED <<prog, session, widgets, tickPending, flow, edits>>

\* the command of fetchGitConnectionCmd returns
FetchGitConnectionCmd ==
    /\ prog = "running"
    /\ \E i \in Outstanding :
         /\ calls[i].op = "GetGitConnection"
         /\ \/ /\ calls' = Returned(i, "err")
               /\ inbox' = inbox \cup
                    {errMsg(Errorf("failed to get git connection",
                                   FacadeError(calls[i].op)))}
            \/ \E d \in GitConnectionResults :
                 /\ calls' = Returned(i, "ok")
                 /\ inbox' = inbox \cup {gitConnectionMsg(d)}
    /\ UNCHANGED <<prog, session, widgets, tickPending, flow, edits>>

\* ExecuteFlowCmd deleting the created branch when a later call fails
ExecuteFlowCmd_RollsBack ==
    /\ prog = "running"
    /\ flow.step \in 1..5
    /\ \E i \in Outstanding, sent \in {"ok", "err"},
          refs \in (IF flow.step = 1 THEN Repositories ELSE {<<>>}) :
         LET got == IF flow.step = 1 /\ sent = "ok"
                    THEN GetBranchObjectId(refs, calls[i].args.branchName)
                    ELSE [err |-> IF sent = "err"
                                  THEN FacadeError(calls[i].op) ELSE "",
                          id  |-> ""]
             res == IF got.err = "" THEN "ok" ELSE "err"
         IN  /\ calls[i].op = FlowOps[flow.step]
             /\ IF FlowStops(flow.step, res)
                THEN /\ calls' =
                          IF flow.step > 2
                          THEN Append(Returned(i, res),
                                      Call("DeleteBranch",
                                           [name |-> flow.newBranchName]))
                          ELSE Returned(i, res)
                     /\ flow' = IdleFlow
                     /\ inbox' = inbox \cup
                          {errMsg(Errorf(StepLabel(flow.step), got.err))}
                     /\ UNCHANGED selectedDevWorkspace
                ELSE IF flow.step = 5
                THEN /\ calls' = Returned(i, res)
                     /\ flow' = IdleFlow
                     /\ inbox' = inbox \cup
                          {executionDoneMsg(
                              "Workspace and Branch created and synced successfully!")}
                     /\ UNCHANGED selectedDevWorkspace
                ELSE /\ flow' = FlowAfter(flow.step, flow, got.id)
                     /\ calls' = Append(Returned(i, res),
                                        FlowCall(flow.step + 1, flow'))
                     /\ inbox' = inbox
                     /\ selectedDevWorkspace' =
                          IF flow.step = 3
                          THEN SourceAfterLink(selectedDevWorkspace,
                                               flow.newBranchName)
                          ELSE selectedDevWorkspace
    /\ UNCHANGED <<prog, state, err, successMsg, executionInfos, clients,
                   workspaces, newBranchName, newWorkspaceName, widgets,
                   tickPending, edits>>

\* executeFlowCmd: its outstanding call returns; it returns a message or
\* issues its next call
ExecuteFlowCmd ==
    /\ prog = "running"
    /\ flow.step \in 1..5
    /\ \E i \in Outstanding, sent \in {"ok", "err"},
          refs \in (IF flow.step = 1 THEN Repositories ELSE {<<>>}) :
         LET got == IF flow.step = 1 /\ sent = "ok"
                    THEN GetBranchObjectId(refs, calls[i].args.branchName)
                    ELSE [err |-> IF sent = "err"
                                  THEN FacadeError(calls[i].op) ELSE "",
                          id  |-> ""]
             res == IF got.err = "" THEN "ok" ELSE "err"
         IN  /\ calls[i].op = FlowOps[flow.step]
             /\ IF FlowStops(flow.step, res)
                THEN /\ calls' = Returned(i, res)
                     /\ flow' = IdleFlow
                     /\ inbox' = inbox \cup
                          {errMsg(Errorf(StepLabel(flow.step), got.err))}
                     /\ UNCHANGED selectedDevWorkspace
                ELSE IF flow.step = 5
                THEN /\ calls' = Returned(i, res)
                     /\ flow' = IdleFlow
                     /\ inbox' = inbox \cup
                          {executionDoneMsg(
                              "Workspace and Branch created and synced successfully!")}
                     /\ UNCHANGED selectedDevWorkspace
                ELSE /\ flow' = FlowAfter(flow.step, flow, got.id)
                     /\ calls' = Append(Returned(i, res),
                                        FlowCall(flow.step + 1, flow'))
                     /\ inbox' = inbox
                     /\ selectedDevWorkspace' =
                          IF flow.step = 3
                          THEN SourceAfterLink(selectedDevWorkspace,
                                               flow.newBranchName)
                          ELSE selectedDevWorkspace
    /\ UNCHANGED <<prog, state, err, successMsg, executionInfos, clients,
                   workspaces, newBranchName, newWorkspaceName, widgets,
                   tickPending, edits>>

-----------------------------------------------------------------------------
(* Update: the message cases *)

\* KeyCtrlC with the "ctrl+c" test moved into the key cases of the state
\* switch, which the spinner states, stateDone and stateError do not have
KeyCtrlC_InputPhasesOnly ==
    /\ prog = "running"
    /\ StateCase(state) \in {"select", "branch", "workspace"}
    /\ inbox' = inbox \cup {QuitMsg}
    /\ UNCHANGED <<prog, session, widgets, tickPending, calls, flow, edits>>

\* case tea.KeyMsg: "ctrl+c" returns tea.Quit, whose QuitMsg ends the program
KeyCtrlC ==
    /\ prog = "running"
    /\ inbox' = inbox \cup {QuitMsg}
    /\ UNCHANGED <<prog, session, widgets, tickPending, calls, flow, edits>>

\* the event loop takes the QuitMsg: Run returns and the process ends
Quit ==
    /\ prog = "running"
    /\ QuitMsg \in inbox
    /\ prog' = "exited"
    /\ inbox' = inbox \ {QuitMsg}
    /\ UNCHANGED <<session, widgets, tickPending, calls, flow, edits>>

\* case tea.WindowSizeMsg, and then the state switch, which does nothing more
\* with it
WindowSizeMsg ==
    /\ prog = "running"
    /\ \E sz \in WindowSizes : lstSize' = <<sz[1] - FrameH, sz[2] - FrameV>>
    /\ UNCHANGED <<prog, session, lstItems, lstCursor, branchInput, wsInput,
                   tickPending, inbox, calls, flow, edits>>

\* a spinner.TickMsg reaches the state switch: m.spinner.Update returns the
\* next tick in the spinner states; elsewhere the message is dropped
SpinnerTick ==
    /\ prog = "running"
    /\ tickPending
    /\ tickPending' = (StateCase(state) = "spinner")
    /\ UNCHANGED <<prog, session, widgets, inbox, calls, flow, edits>>

\* case errMsg
UpdateErrMsg ==
    /\ prog = "running"
    /\ \E m \in inbox :
         /\ m.type = "errMsg"
         /\ err' = m.err
         /\ state' = NextState("errMsg")
         /\ inbox' = inbox \ {m}
    /\ UNCHANGED <<prog, successMsg, executionInfos, clients, workspaces,
                   selectedDevWorkspace, newBranchName, newWorkspaceName,
                   widgets, tickPending, calls, flow, edits>>

\* case clientsReadyMsg
UpdateClientsReadyMsg ==
    /\ prog = "running"
    /\ \E m \in inbox :
         /\ m.type = "clientsReadyMsg"
         /\ clients' = TRUE
         /\ state' = NextState("clientsReadyMsg")
         /\ calls' = Append(calls, Call("ListWorkspaces", <<>>))
         /\ inbox' = inbox \ {m}
    /\ UNCHANGED <<prog, err, successMsg, executionInfos, workspaces,
                   selectedDevWorkspace, newBranchName, newWorkspaceName,
                   widgets, tickPending, flow, edits>>

\* UpdateWorkspacesMsg taking an empty list for a failure
UpdateWorkspacesMsg_EmptyIsError ==
    /\ prog = "running"
    /\ \E m \in inbox :
         /\ m.type = "workspacesMsg"
         /\ workspaces' = m.workspaces
         /\ lstItems' = m.workspaces
         /\ state' = IF m.workspaces = <<>>
                     THEN NextState("errMsg")
                     ELSE NextState("workspacesMsg")
         /\ inbox' = inbox \ {m}
    /\ UNCHANGED <<prog, err, successMsg, executionInfos, clients,
                   selectedDevWorkspace, newBranchName, newWorkspaceName,
                   lstCursor, lstSize, branchInput, wsInput, tickPending,
                   calls, flow, edits>>

\* case workspacesMsg
UpdateWorkspacesMsg ==
    /\ prog = "running"
    /\ \E m \in inbox :
         /\ m.type = "workspacesMsg"
         /\ workspaces' = m.workspaces
         /\ lstItems' = m.workspaces
         /\ state' = NextState("workspacesMsg")
         /\ inbox' = inbox \ {m}
    /\ UNCHANGED <<prog, err, successMsg, executionInfos, clients,
                   selectedDevWorkspace, newBranchName, newWorkspaceName,
                   lstCursor, lstSize, branchInput, wsInput, tickPending,
                   calls, flow, edits>>

\* case gitConnectionMsg
UpdateGitConnectionMsg ==
    /\ prog = "running"
    /\ \E m \in inbox :
         /\ m.type = "gitConnectionMsg"
         /\ IF ~GitConnectionUsable(m.details)
            THEN /\ err' = NoGitIntegrationErr
                 /\ state' = NextState("noGitIntegration")
                 /\ UNCHANGED selectedDevWorkspace
            ELSE /\ selectedDevWorkspace' =
                      [selectedDevWorkspace EXCEPT !.GitProviderDetails = m.details]
                 /\ state' = NextState("gitConnectionMsg")
                 /\ UNCHANGED err
         /\ inbox' = inbox \ {m}
    /\ UNCHANGED <<prog, successMsg, executionInfos, clients, workspaces,
                   newBranchName, newWorkspaceName, widgets, tickPending,
                   calls, flow, edits>>

\* UpdateExecutionStepMsg putting the new entry first
UpdateExecutionStepMsg_Prepends ==
    /\ prog = "running"
    /\ \E m \in inbox :
         /\ m.type = "executionStepMsg"
         /\ executionInfos' = <<m.text>> \o executionInfos
         /\ inbox' = inbox \ {m}
    /\ UNCHANGED <<prog, state, err, successMsg, clients, workspaces,
                   selectedDevWorkspace, newBranchName, newWorkspaceName,
                   widgets, tickPending, calls, flow, edits>>

\* case executionStepMsg
UpdateExecutionStepMsg ==
    /\ prog = "running"
    /\ \E m \in inbox :
         /\ m.type = "executionStepMsg"
         /\ executionInfos' = Append(executionInfos, m.text)
         /\ inbox' = inbox \ {m}
    /\ UNCHANGED <<prog, state, err, successMsg, clients, workspaces,
                   selectedDevWorkspace, newBranchName, newWorkspaceName,
                   widgets, tickPending, calls, flow, edits>>

\* case executionDoneMsg: returns tea.Quit
UpdateExecutionDoneMsg ==
    /\ prog = "running"
    /\ \E m \in inbox :
         /\ m.type = "executionDoneMsg"
         /\ successMsg' = m.text
         /\ state' = NextState("executionDoneMsg")
         /\ inbox' = (inbox \ {m}) \cup {QuitMsg}
    /\ UNCHANGED <<prog, err, executionInfos, clients, workspaces,
                   selectedDevWorkspace, newBranchName, newWorkspaceName,
                   widgets, tickPending, calls, flow, edits>>

-----------------------------------------------------------------------------
(* Update: the state switch, on key messages *)

\* a key in a spinner state goes to m.spinner.Update, which ignores it; in
\* stateDone and stateError no case takes it
KeyIgnored ==
    /\ prog = "running"
    /\ StateCase(state) \in {"spinner", "none"}
    /\ UNCHANGED vars

\* KeyNavigate with the selection following the highlight
KeyNavigate_SelectsOnMove ==
    /\ prog = "running"
    /\ StateCase(state) = "select"
    /\ \E key \in {"up", "down"} :
         lstCursor' = MoveCursor(lstCursor, Len(lstItems), key)
    /\ selectedDevWorkspace' =
           IF lstCursor' < Len(lstItems)
           THEN lstItems[lstCursor' + 1] ELSE NilWorkspace
    /\ UNCHANGED <<prog, state, err, successMsg, executionInfos, clients,
                   workspaces, newBranchName, newWorkspaceName, lstItems,
                   lstSize, branchInput, wsInput, tickPending, inbox, calls,
                   flow, edits>>

\* stateSelectWorkspace: "up" and "down" go to m.workspaceLst.Update
KeyNavigate ==
    /\ prog = "running"
    /\ StateCase(state) = "select"
    /\ \E key \in {"up", "down"} :
         lstCursor' = MoveCursor(lstCursor, Len(lstItems), key)
    /\ UNCHANGED <<prog, session, lstItems, lstSize, branchInput, wsInput,
                   tickPending, inbox, calls, flow, edits>>

\* KeyEnterSelect with the "ok" of the type assertion not looked at
KeyEnterSelect_NoHighlightCheck ==
    /\ prog = "running"
    /\ StateCase(state) = "select"
    /\ selectedDevWorkspace' = SelectedItem
    /\ state' = NextState("workspaceSelected")
    /\ calls' = Append(calls,
                       Call("GetGitConnection", [id |-> SelectedItem.Id]))
    /\ UNCHANGED <<prog, err, successMsg, executionInfos, clients, workspaces,
                   newBranchName, newWorkspaceName, widgets, tickPending,
                   inbox, flow, edits>>

\* stateSelectWorkspace: "enter"
KeyEnterSelect ==
    /\ prog = "running"
    /\ StateCase(state) = "select"
    /\ IF ~SelectedItem.nil
       THEN /\ selectedDevWorkspace' = SelectedItem
            /\ state' = NextState("workspaceSelected")
            /\ calls' = Append(calls,
                               Call("GetGitConnection", [id |-> SelectedItem.Id]))
       ELSE UNCHANGED <<selectedDevWorkspace, state, calls>>
    /\ UNCHANGED <<prog, err, successMsg, executionInfos, clients, workspaces,
                   newBranchName, newWorkspaceName, widgets, tickPending,
                   inbox, flow, edits>>

\* stateEnterBranch: an editing key goes to m.branchInput.Update
KeyEditBranch ==
    /\ prog = "running"
    /\ StateCase(state) = "branch"
    /\ edits < MaxEdits
    /\ edits' = edits + 1
    /\ \E k \in EditKeys : branchInput' = EditValue(branchInput, k)
    /\ UNCHANGED <<prog, session, lstItems, lstCursor, lstSize, wsInput,
                   tickPending, inbox, calls, flow>>

\* stateEnterBranch: "enter"
KeyEnterBranch ==
    /\ prog = "running"
    /\ StateCase(state) = "branch"
    /\ newBranchName' = branchInput
    /\ IF NameAccepted(newBranchName')
       THEN /\ state' = NextState("branchNamed")
            /\ wsInput' = SetValue(FeaturePrefix \o newBranchName')
       ELSE UNCHANGED <<state, wsInput>>
    /\ UNCHANGED <<prog, err, successMsg, executionInfos, clients, workspaces,
                   selectedDevWorkspace, newWorkspaceName, lstItems, lstCursor,
                   lstSize, branchInput, tickPending, inbox, calls, flow, edits>>

\* stateEnterWorkspace: an editing key goes to m.wsInput.Update
KeyEditWorkspace ==
    /\ prog = "running"
    /\ StateCase(state) = "workspace"
    /\ edits < MaxEdits
    /\ edits' = edits + 1
    /\ \E k \in EditKeys : wsInput' = EditValue(wsInput, k)
    /\ UNCHANGED <<prog, session, lstItems, lstCursor, lstSize, branchInput,
                   tickPending, inbox, calls, flow>>

\* stateEnterWorkspace: "enter"; m.executeFlowCmd is bound to the model as
\* it is returned
KeyEnterWorkspace ==
    /\ prog = "running"
    /\ StateCase(state) = "workspace"
    /\ newWorkspaceName' = wsInput
    /\ IF NameAccepted(newWorkspaceName')
       THEN /\ state' = NextState("workspaceNamed")
            /\ flow' = [IdleFlow EXCEPT
                          !.step = 1,
                          !.gitInfo = selectedDevWorkspace.GitProviderDetails,
                          !.parent = selectedDevWorkspace,
                          !.newBranchName = newBranchName,
                          !.newWorkspaceName = newWorkspaceName']
            /\ calls' = Append(calls, FlowCall(1, flow'))
       ELSE UNCHANGED <<state, flow, calls>>
    /\ UNCHANGED <<prog, err, successMsg, executionInfos, clients, workspaces,
                   selectedDevWorkspace, newBranchName, widgets, tickPending,
                   inbox, edits>>

-----------------------------------------------------------------------------
(* The specification *)

\* what the program's commands do
Commands ==
    \/ InitClientsCmd
    \/ FetchWorkspacesCmd
    \/ FetchGitConnectionCmd
    \/ ExecuteFlowCmd

\* Update on a message a command returned
Results ==
    \/ UpdateErrMsg
    \/ UpdateClientsReadyMsg
    \/ UpdateWorkspacesMsg
    \/ UpdateGitConnectionMsg
    \/ UpdateExecutionDoneMsg

\* Update on what the terminal sends
Terminal ==
    \/ KeyCtrlC
    \/ WindowSizeMsg
    \/ SpinnerTick
    \/ KeyIgnored
    \/ KeyNavigate
    \/ KeyEnterSelect
    \/ KeyEditBranch
    \/ KeyEnterBranch
    \/ KeyEditWorkspace
    \/ KeyEnterWorkspace

\* no command of the program returns an executionStepMsg, and nothing else
\* sends one: UpdateExecutionStepMsg is never enabled and is no step of Next
Next ==
    \/ ModelInit
    \/ Commands
    \/ Results
    \/ Terminal
    \/ Quit

Spec == Init /\ [][Next]_vars

-----------------------------------------------------------------------------
(* Update fed with executionStepMsg, the message type that no command of the
   program returns: one message for each sub-step executeFlowCmd has
   completed, from the moment the execution sequence is dispatched *)

\* a state Spec reaches by KeyEnterWorkspace: workspace "Dev" selected, its
\* git link on "main", branch name "x" typed, the prefilled workspace name
\* confirmed and the first call of executeFlowCmd issued
ExecutingEntered ==
    /\ prog = "running"
    /\ state = stateExecuting
    /\ err = NoErr
    /\ successMsg = ""
    /\ executionInfos = <<>>
    /\ clients = TRUE
    /\ workspaces = <<WsDev>>
    /\ lstItems = <<WsDev>>
    /\ lstCursor = 0
    /\ lstSize = <<0, 0>>
    /\ branchInput = <<"x">>
    /\ wsInput = SetValue(FeaturePrefix \o <<"x">>)
    /\ selectedDevWorkspace =
           [WsDev EXCEPT !.GitProviderDetails =
                             GitProviderDetails(MainBranch, "AzureDevOps")]
    /\ newBranchName = <<"x">>
    /\ newWorkspaceName = SetValue(FeaturePrefix \o <<"x">>)
    /\ tickPending = TRUE
    /\ inbox = {}
    /\ flow = [IdleFlow EXCEPT
                 !.step = 1,
                 !.gitInfo = GitProviderDetails(MainBranch, "AzureDevOps"),
                 !.parent = [WsDev EXCEPT !.GitProviderDetails =
                                GitProviderDetails(MainBranch, "AzureDevOps")],
                 !.newBranchName = <<"x">>,
                 !.newWorkspaceName = SetValue(FeaturePrefix \o <<"x">>)]
    /\ calls = <<[Call("NewAuthenticator", <<>>) EXCEPT !.res = "ok"],
                 [Call("ListWorkspaces", <<>>) EXCEPT !.res = "ok"],
                 [Call("GetGitConnection", [id |-> WsDev.Id])
                      EXCEPT !.res = "ok"],
                 Call("GetBranchObjectId",
                      [org |-> "A", project |-> "P", repo |-> "R",
                       branchName |-> MainBranch])>>
    /\ edits = 1

\* the executionStepMsg not handled yet
StepMsgs == {m \in inbox : m.type = "executionStepMsg"}

\* an executionStepMsg for the next completed sub-step is sent to the program
StepCompleted ==
    /\ prog = "running"
    /\ flow.step \in 2..5
    /\ Len(executionInfos) + Cardinality(StepMsgs) < flow.step - 1
    /\ inbox' = inbox \cup
           {executionStepMsg(
                StepLabel(Len(executionInfos) + Cardinality(StepMsgs) + 1))}
    /\ UNCHANGED <<prog, session, widgets, tickPending, calls, flow, edits>>

NextStepMsg ==
    \/ ExecuteFlowCmd
    \/ StepCompleted
    \/ UpdateExecutionStepMsg
    \/ UpdateErrMsg
    \/ UpdateExecutionDoneMsg
    \/ KeyCtrlC
    \/ Quit
    \/ WindowSizeMsg
    \/ SpinnerTick
    \/ KeyIgnored

SpecStepMsg == ExecutingEntered /\ [][NextStepMsg]_vars

-----------------------------------------------------------------------------
(* Properties *)

\* the calls of the execution sequence, in the order they were issued
IsFlowCall(c) == \E k \in 1..Len(FlowOps) : FlowOps[k] = c.op
FlowCalls == SelectSeq(calls, IsFlowCall)

\* the results of commands that Update has not handled yet
ResultMsgs == {m \in inbox : m.type # "QuitMsg"}

\* C1: every change of the session phase is a move to the immediate
\* successor in the order Init, LoadingWorkspaces, SelectWorkspace,
\* LoadingGitLink, EnterBranchName, EnterWorkspaceName, Executing, Done, or a
\* move into Error: no phase is skipped, none is revisited.
C1_PhaseOrder ==
    [][state' # state =>
          \/ state' = stateError
          \/ /\ state # stateError
             /\ StateIndex(state') = StateIndex(state) + 1]_vars

\* C1 witness: the whole order was walked, all eight remote calls made
C1_Witness == state = stateDone /\ Len(calls) = 8

\* C2: the five remote calls of the execution sequence are issued in the
\* order resolve base commit, create branch, create workspace, link to git,
\* update from git, and after a call that returned an error no further call
\* is issued.
C2_StepsInOrder ==
    /\ Len(FlowCalls) <= Len(FlowOps)
    /\ \A i \in 1..Len(FlowCalls) :
         /\ FlowCalls[i].op = FlowOps[i]
         /\ i < Len(FlowCalls) => FlowCalls[i].res = "ok"

\* C2 witness: the third call failed after two that succeeded
C2_Witness == Len(FlowCalls) = 3 /\ FlowCalls[3].res = "err"

\* the labels the specification gives the five steps
C3_Labels ==
    <<"getting dev branch commit", "creating feature branch",
      "creating workspace", "connecting git", "updating from git">>

\* C3: when step k fails, the error sent to the controller, and recorded
\* with phase Error once handled, carries the label of step k and the text
\* of the facade error (for step 1 also that of the branch not found); a
\* failure of step 3 is labelled "creating workspace".
C3_FailedStepLabelled ==
    \A k \in 1..Len(FlowCalls) :
        FlowCalls[k].res = "err" =>
            \E cause \in {FacadeError(FlowCalls[k].op)}
                           \cup (IF k = 1 THEN {"branch not found"} ELSE {}) :
                LET e == Errorf(C3_Labels[k], cause)
                IN  \/ errMsg(e) \in inbox
                    \/ state = stateError /\ err = e

\* C3 witness: step 3 failed and the session is in Error with its label
C3_Witness ==
    /\ state = stateError
    /\ Len(FlowCalls) = 3
    /\ FlowCalls[3].res = "err"
    /\ err.label = "creating workspace"

\* C4 (as claimed): when all five calls succeeded the phase is Done, the
\* success summary is non-empty and the progress log holds five entries.
C4_DoneWithFiveEntries ==
    state = stateDone => successMsg # "" /\ Len(executionInfos) = 5

\* C5 (as claimed): when step 1 succeeded and step 2 failed, the phase ends
\* as Error, the error names branch creation, and the progress log holds
\* exactly one entry.
C5_OneEntryAfterBranchFailure ==
    (/\ Len(FlowCalls) = 2
     /\ FlowCalls[2].res = "err"
     /\ ResultMsgs = {})
        => /\ state = stateError
           /\ err.label = "creating feature branch"
           /\ Len(executionInfos) = 1

\* C6: at most one remote call is outstanding, and none is outstanding
\* while the result of an earlier one still waits to be handled.
C6_OneOutstanding == Cardinality(Outstanding) + Cardinality(ResultMsgs) <= 1

\* C6 witness: a call of the execution sequence is outstanding
C6_Witness == Cardinality(Outstanding) = 1 /\ flow.step = 4

\* C7: handling a git-connection result whose descriptor is missing or has
\* an empty provider type, in LoadingGitLink, moves the session to Error
\* with the missing-git-integration error and leaves the selected workspace
\* as it was.
C7_UnusableGitLinkIsError ==
    [][\A m \in inbox :
          (/\ m.type = "gitConnectionMsg"
           /\ m \notin inbox'
           /\ (m.details.nil \/ m.details.GitProviderType = ""))
              => /\ state = stateLoadingGit
                 /\ state' = stateError
                 /\ err' = NoGitIntegrationErr
                 /\ selectedDevWorkspace' = selectedDevWorkspace]_vars

\* C7 witness: Error after a descriptor with an empty provider type
C7_Witness ==
    /\ state = stateError
    /\ err = NoGitIntegrationErr
    /\ selectedDevWorkspace.GitProviderDetails.nil
    /\ \E i \in DOMAIN calls :
         calls[i].op = "GetGitConnection" /\ calls[i].res = "ok"

\* C8: once the phase is Error it stays Error, and no remote call is issued.
C8_ErrorIsAbsorbing ==
    [][state = stateError =>
          state' = stateError /\ Len(calls') = Len(calls)]_vars

\* C8 witness: Error after a failed execution, the program still running
\* with both names entered
C8_Witness ==
    /\ state = stateError
    /\ prog = "running"
    /\ newWorkspaceName # EmptyStr
    /\ QuitMsg \notin inbox

\* C9: Enter on an empty text in EnterBranchName or EnterWorkspaceName
\* changes nothing at all: not the phase, no field, no call issued.
C9_EmptyConfirmIsNoOp ==
    [][(\/ KeyEnterBranch /\ branchInput = EmptyStr
        \/ KeyEnterWorkspace /\ wsInput = EmptyStr)
          => UNCHANGED vars]_vars

\* C9 witness: the workspace-name input emptied by the user
C9_Witness ==
    /\ prog = "running"
    /\ state = stateEnterWorkspace
    /\ wsInput = EmptyStr
    /\ newBranchName # EmptyStr

\* C10 (as claimed): confirming a non-empty branch name b pre-populates the
\* workspace-name input with exactly "Feature - " followed by b, and
\* confirming the input makes its text the chosen workspace name.
C10_PrefillIsFeaturePrefix ==
    [][/\ (state = stateEnterBranch /\ state' = stateEnterWorkspace)
            => /\ newBranchName' = branchInput
               /\ wsInput' = FeaturePrefix \o branchInput
       /\ (state = stateEnterWorkspace /\ state' = stateExecuting)
            => newWorkspaceName' = wsInput]_vars

\* branch names to compare CreateBranch on: one or two typed texts, or none
BranchNames ==
    {EmptyStr} \cup TypedTexts
        \cup {InsertRunes(a, b) : a \in TypedTexts, b \in TypedTexts}

\* the calls issued so far of one operation
CallsOf(op) == {i \in DOMAIN calls : calls[i].op = op}

\* C11: for a branch name x, CreateBranch sends the ref name "refs/heads/" + x
\* whether it is called with x or with "refs/heads/" + x; a name that
\* already has the prefix is sent as it is, so normalising twice is
\* normalising once; the CreateBranch call of a session sends the entered
\* name under the prefix.
C11_SameRefForShortAndPrefixed ==
    /\ \A x \in BranchNames :
         ~HasPrefix(x, RefsHeads) =>
             /\ FullBranchName(x) = RefsHeads \o x
             /\ FullBranchName(RefsHeads \o x) = RefsHeads \o x
    /\ \A x \in BranchNames :
         FullBranchName(FullBranchName(x)) = FullBranchName(x)
    /\ \A i \in CallsOf("CreateBranch") :
         /\ HasPrefix(calls[i].args.name, RefsHeads)
         /\ calls[i].args.name \in {newBranchName, RefsHeads \o newBranchName}
         /\ HasPrefix(newBranchName, RefsHeads) =>
                calls[i].args.name = newBranchName

\* C11 witness: CreateBranch was called with a name entered with the prefix
C11_Witness ==
    /\ newBranchName = RefsHeads \o <<"x">>
    /\ \E i \in CallsOf("CreateBranch") : calls[i].args.name = newBranchName

\* C12 (as claimed): the branch named in the git-link request of step 4 is
\* the branch step 2 created, that is the created ref without "refs/heads/",
\* whether the user entered the short or the prefixed name.
C12_LinkNamesCreatedBranch ==
    \A i \in CallsOf("CreateBranch"), j \in CallsOf("ConnectWorkspaceToGit") :
        calls[j].args.details.BranchName =
            TrimPrefix(calls[i].args.name, RefsHeads)

\* C13 (as claimed): the branch in the git-link request of step 4 differs
\* from the branch of the source workspace's git link.
C13_LinkNotSourceBranch ==
    \A j \in CallsOf("ConnectWorkspaceToGit") :
        calls[j].args.details.BranchName #
            selectedDevWorkspace.GitProviderDetails.BranchName

\* C14: the phase is Done only when all five calls of the execution
\* sequence were made and each returned without error.
C14_DoneOnlyAfterFiveSuccesses ==
    state = stateDone =>
        /\ Len(FlowCalls) = Len(FlowOps)
        /\ \A i \in 1..Len(FlowCalls) : FlowCalls[i].res = "ok"

\* C14 witness: Done with the success summary recorded
C14_Witness ==
    /\ state = stateDone
    /\ successMsg # ""
    /\ Len(FlowCalls) = 5
    /\ FlowCalls[5].op = "UpdateWorkspaceFromGit"

\* C15: while the program runs, in every phase and with or without a remote
\* call outstanding, ctrl+c can be handled and issues quit; the step that
\* issues quit for it changes neither the phase nor any other field of the
\* session and issues no remote call.
C15_AbortQuitsAndChangesNothing ==
    /\ [](prog = "running" => ENABLED (KeyCtrlC /\ QuitMsg \in inbox'))
    /\ [][(/\ QuitMsg \notin inbox
           /\ QuitMsg \in inbox'
           /\ ResultMsgs' = ResultMsgs)
             => UNCHANGED <<prog, session, widgets, tickPending, calls, flow,
                            edits>>]_vars

\* C15 witness: quit issued in Executing while a call is outstanding
C15_Witness ==
    /\ prog = "running"
    /\ state = stateExecuting
    /\ QuitMsg \in inbox
    /\ Cardinality(Outstanding) = 1

-----------------------------------------------------------------------------
\* The facades' doRequest, on one request whose response has a given status

\* the status codes a response can carry when client.Do returns it: net/http
\* consumes the 1xx interim responses other than 101
StatusCodes == {101} \cup (200..599)

\* the operations of the fabric facade and whether they pass an "out"
FabricOps ==
    { [op |-> "ListWorkspaces",         hasOut |-> TRUE],
      [op |-> "GetGitConnection",       hasOut |-> TRUE],
      [op |-> "CreateWorkspace",        hasOut |-> TRUE],
      [op |-> "ConnectWorkspaceToGit",  hasOut |-> FALSE],
      [op |-> "UpdateWorkspaceFromGit", hasOut |-> FALSE] }

\* the operations of the devops facade and whether they pass an "out"
DevOpsOps ==
    { [op |-> "GetBranchObjectId", hasOut |-> TRUE],
      [op |-> "CreateBranch",      hasOut |-> FALSE] }

\* what can go wrong before a response exists: GetToken or client.Do fails
Faults == {"none", "token", "transport"}

\* "resp.StatusCode != http.StatusNoContent [&& != http.StatusAccepted]"
DecodesBody(client, status) ==
    IF client = "fabric" THEN status \notin {204, 202} ELSE status # 204

\* doRequest: the error it returns, "nil" for none
DoRequest(client, fault, status, hasOut, decodes) ==
    IF fault # "none" THEN fault
    ELSE IF status >= 400 THEN "statusErr"
    ELSE IF hasOut /\ DecodesBody(client, status) /\ ~decodes THEN "decodeErr"
    ELSE "nil"

\* the record of one request through a facade: its inputs and its error
Requested(client, o, fault, status, decodes) ==
    [op   |-> o.op,
     args |-> [client |-> client, fault |-> fault,
               status |-> IF fault = "none" THEN status ELSE 0,
               hasOut |-> o.hasOut, decodes |-> decodes],
     res  |-> DoRequest(client, fault, status, o.hasOut, decodes)]

\* fabric.Client.doRequest
FabricDoRequest ==
    /\ calls = <<>>
    /\ \E o \in FabricOps, fault \in Faults, status \in StatusCodes,
          decodes \in BOOLEAN :
         calls' = <<Requested("fabric", o, fault, status, decodes)>>
    /\ UNCHANGED <<prog, session, widgets, tickPending, inbox, flow, edits>>

\* devops.Client.doRequest
DevOpsDoRequest ==
    /\ calls = <<>>
    /\ \E o \in DevOpsOps, fault \in Faults, status \in StatusCodes,
          decodes \in BOOLEAN :
         calls' = <<Requested("devops", o, fault, status, decodes)>>
    /\ UNCHANGED <<prog, session, widgets, tickPending, inbox, flow, edits>>

NextDoRequest ==
    \/ FabricDoRequest
    \/ DevOpsDoRequest

SpecDoRequest == Init /\ [][NextDoRequest]_vars

\* C16 (as claimed): a request that got a response returns the status error
\* exactly when the status is outside 200..299.
C16_NonSuccessStatusIsError ==
    \A i \in DOMAIN calls :
        calls[i].args.fault = "none" =>
            (calls[i].res = "statusErr" <=> calls[i].args.status \notin 200..299)

-----------------------------------------------------------------------------
\* the phases entered after the git link of the source workspace was read
LinkedPhases ==
    {stateEnterBranch, stateEnterWorkspace, stateExecuting, stateDone}

\* C17: in EnterBranchName, EnterWorkspaceName, Executing and Done a source
\* workspace is selected and carries a git-link descriptor with a non-empty
\* provider type; the descriptor executeFlowCmd reads is never missing.
C17_GitLinkPresentWhenNeeded ==
    /\ state \in LinkedPhases =>
           /\ ~selectedDevWorkspace.nil
           /\ ~selectedDevWorkspace.GitProviderDetails.nil
           /\ selectedDevWorkspace.GitProviderDetails.GitProviderType # ""
    /\ flow.step >= 1 =>
           /\ ~flow.gitInfo.nil
           /\ flow.gitInfo.GitProviderType # ""
           /\ flow.gitInfo = selectedDevWorkspace.GitProviderDetails

\* C17 witness: the sequence is reading the descriptor of the selected workspace
C17_Witness ==
    /\ state = stateExecuting
    /\ flow.step = 4
    /\ ~flow.gitInfo.nil
    /\ selectedDevWorkspace.Id = WsDev.Id

\* C18: EnterWorkspaceName implies a non-empty branch name; Executing and Done
\* imply non-empty branch and workspace names; CreateBranch and
\* CreateWorkspace are never issued with an empty name.
C18_NamesNonEmpty ==
    /\ state \in {stateEnterWorkspace, stateExecuting, stateDone} =>
           newBranchName # EmptyStr
    /\ state \in {stateExecuting, stateDone} => newWorkspaceName # EmptyStr
    /\ \A i \in CallsOf("CreateBranch") :
           /\ calls[i].args.name # EmptyStr
           /\ calls[i].args.name = FullBranchName(newBranchName)
    /\ \A i \in CallsOf("CreateWorkspace") :
           calls[i].args.DisplayName # EmptyStr

\* C18 witness: both create calls issued, after an empty confirmation was
\* possible (the workspace input was edited)
C18_Witness ==
    /\ CallsOf("CreateBranch") # {}
    /\ CallsOf("CreateWorkspace") # {}
    /\ edits > 0
    /\ newWorkspaceName # EmptyStr

\* C19: each of the five operations of the execution sequence is invoked at
\* most once in a session, whatever keys and messages arrive in Executing,
\* Done or Error.
C19_SequenceDispatchedOnce ==
    \A k \in DOMAIN FlowOps : Cardinality(CallsOf(FlowOps[k])) <= 1

\* C19 witness: the sequence ran to its end and the program still takes keys
C19_Witness ==
    /\ state = stateDone
    /\ prog = "running"
    /\ \A k \in DOMAIN FlowOps : Cardinality(CallsOf(FlowOps[k])) = 1

\* the calls made before the execution sequence
SetupOps == {"NewAuthenticator", "ListWorkspaces", "GetGitConnection"}

\* C20: when client initialisation, ListWorkspaces or GetGitConnection has
\* failed, no call follows it, and its errMsg is either still to be handled
\* (and Update can handle it in the current phase) or has put the session in
\* Error with the error recorded.
C20_SetupFailureIsFatal ==
    \A i \in DOMAIN calls :
        (calls[i].op \in SetupOps /\ calls[i].res = "err") =>
            /\ i = Len(calls)
            /\ flow.step = 0
            /\ \/ /\ \E m \in inbox : m.type = "errMsg" /\ ~m.err.nil
                  /\ prog = "running" => ENABLED UpdateErrMsg
               \/ /\ state = stateError
                  /\ ~err.nil
                  /\ err.cause \in {"azidentity", FacadeError(calls[i].op)}

\* C20 witness: ListWorkspaces failed and the session is in Error
C20_Witness ==
    /\ state = stateError
    /\ \E i \in CallsOf("ListWorkspaces") : calls[i].res = "err"
    /\ err = BareErr(FacadeError("ListWorkspaces"))

-----------------------------------------------------------------------------
\* the commit a head of the repository points to
HeadCommit(name) ==
    CASE name = MainBranch -> BaseCommit
      [] name = MainOld -> OldCommit
      [] name = DevBranch -> DevCommit

\* C21 (as claimed): when step 1 is issued and the repository holds the
\* branch named in the git link, whatever other branches share its prefix,
\* GetBranchObjectId returns the commit of the branch with exactly that name;
\* and CreateBranch is asked to point the new branch at the commit of the
\* source branch.
C21_BranchFromSourceCommit ==
    /\ \A j \in CallsOf("GetBranchObjectId"), refs \in Repositories :
         LET b == calls[j].args.branchName
         IN  (\E k \in DOMAIN refs : refs[k].Name = FullBranchName(b)) =>
                 GetBranchObjectId(refs, b) =
                     [err |-> "", id |-> HeadCommit(TrimPrefix(b, RefsHeads))]
    /\ \A i \in CallsOf("CreateBranch"), j \in CallsOf("GetBranchObjectId") :
         calls[i].args.newObjectId =
             HeadCommit(TrimPrefix(calls[j].args.branchName, RefsHeads))

\* C22 (as claimed): the create-workspace request carries the chosen
\* workspace name, the capacity of the source workspace and a description
\* whose branch is the source branch and whose parent is the source
\* workspace's display name.
C22_DescriptionNamesSourceBranch ==
    \A i \in CallsOf("CreateWorkspace") :
        /\ calls[i].args.DisplayName = newWorkspaceName
        /\ calls[i].args.CapacityId = selectedDevWorkspace.CapacityId
        /\ calls[i].args.Description[2] =
               selectedDevWorkspace.GitProviderDetails.BranchName
        /\ calls[i].args.Description[4] = selectedDevWorkspace.DisplayName

\* C22 (amended): the create-workspace request carries the chosen workspace
\* name, the capacity of the source workspace and the description
\* "Feature workspace for <chosen branch name> (Parent: <display name of the
\* source workspace>)".
C22_CreateWorkspaceRequest ==
    \A i \in CallsOf("CreateWorkspace") :
        /\ calls[i].args.DisplayName = newWorkspaceName
        /\ calls[i].args.CapacityId = selectedDevWorkspace.CapacityId
        /\ calls[i].args.Description =
               <<"Feature workspace for ", newBranchName,
                 " (Parent: ", selectedDevWorkspace.DisplayName, ")">>

\* C22 witness: the request issued for a branch named unlike the source branch
C22_Witness ==
    /\ \E i \in CallsOf("CreateWorkspace") :
           calls[i].args.CapacityId = WsDev.CapacityId
    /\ newBranchName = <<"x">>
    /\ newBranchName # selectedDevWorkspace.GitProviderDetails.BranchName

\* the fields of a git-link descriptor beside its branch
SameRepository(d, e) ==
    /\ d.nil = e.nil
    /\ d.OrganizationName = e.OrganizationName
    /\ d.ProjectName = e.ProjectName
    /\ d.RepositoryName = e.RepositoryName
    /\ d.DirectoryName = e.DirectoryName
    /\ d.GitProviderType = e.GitProviderType

\* C23: the git-link request targets the workspace CreateWorkspace returned,
\* agrees with the source workspace's descriptor in organization, project,
\* repository, directory and provider type and carries the chosen branch; and
\* no step of the execution sequence changes the source workspace or its
\* descriptor.
C23_LinkCopiesSourceDescriptor ==
    /\ [](\A j \in CallsOf("ConnectWorkspaceToGit") :
            /\ calls[j].args.workspaceId = NewWsId
            /\ \E i \in CallsOf("CreateWorkspace") :
                   i < j /\ calls[i].res = "ok"
            /\ SameRepository(calls[j].args.details,
                              selectedDevWorkspace.GitProviderDetails)
            /\ calls[j].args.details.BranchName = newBranchName
            /\ selectedDevWorkspace.GitProviderDetails \in GitConnectionResults)
    /\ [][flow.step # 0 => UNCHANGED selectedDevWorkspace]_vars

\* C23 witness: the request built for a branch other than the source branch
C23_Witness ==
    /\ \E j \in CallsOf("ConnectWorkspaceToGit") :
           calls[j].args.details.BranchName = <<"x">>
    /\ selectedDevWorkspace.GitProviderDetails.BranchName = MainBranch

\* the executionStepMsg a step takes out of the inbox
StepMsgsHandled == {m \in inbox \ inbox' : m.type = "executionStepMsg"}

\* C24: a step that handles an executionStepMsg appends its entry at the end
\* of the log and leaves the earlier entries, the phase and every other
\* field of the session unchanged; every other step leaves the log as it is.
C24_LogAppendOnly ==
    [][IF StepMsgsHandled # {}
       THEN /\ \E m \in StepMsgsHandled :
                 /\ executionInfos' = Append(executionInfos, m.text)
                 /\ inbox' = inbox \ {m}
            /\ UNCHANGED <<prog, state, err, successMsg, clients, workspaces,
                           selectedDevWorkspace, newBranchName,
                           newWorkspaceName, widgets, calls, flow>>
       ELSE executionInfos' = executionInfos]_vars

\* C24 witness: two entries logged in the order of their sub-steps, the
\* second one handled after the sequence had failed
C24_Witness ==
    /\ executionInfos = <<StepLabel(1), StepLabel(2)>>
    /\ state = stateError

\* C25: in SelectWorkspace with a workspace highlighted, Enter can be handled
\* and moves to LoadingGitLink; a step taken in SelectWorkspace that changes
\* the phase, the selection or the calls happens only with a workspace
\* highlighted, selects that workspace, moves to LoadingGitLink and requests
\* the git link of that workspace; with none highlighted all three stay.
C25_ConfirmNeedsHighlight ==
    /\ []((prog = "running" /\ state = stateSelectWorkspace
             /\ ~SelectedItem.nil)
            => ENABLED (KeyEnterSelect /\ state' = stateLoadingGit))
    /\ [][state = stateSelectWorkspace =>
            /\ (\/ state' # state
                \/ calls' # calls
                \/ selectedDevWorkspace' # selectedDevWorkspace) =>
                   /\ ~SelectedItem.nil
                   /\ state' = stateLoadingGit
                   /\ selectedDevWorkspace' = SelectedItem
                   /\ calls' = Append(calls,
                          Call("GetGitConnection", [id |-> SelectedItem.Id]))
            /\ SelectedItem.nil =>
                   UNCHANGED <<state, selectedDevWorkspace, calls>>]_vars

\* C25 witness: the second workspace of the list was highlighted and confirmed
C25_Witness ==
    /\ state = stateLoadingGit
    /\ lstCursor = 1
    /\ selectedDevWorkspace.Id = WsTest.Id
    /\ \E i \in Outstanding : calls[i].args = [id |-> WsTest.Id]

\* the operations the program calls: none deletes or undoes anything
CalledOps == SetupOps \cup {FlowOps[k] : k \in DOMAIN FlowOps}

\* the calls of the execution sequence that failed
FailedFlowCalls ==
    {i \in DOMAIN calls : IsFlowCall(calls[i]) /\ calls[i].res = "err"}

\* C26: every call is one of the eight reading or creating operations; the
\* history of calls only grows, a call that succeeded stays as it was; once
\* a call of the execution sequence has failed, or the program has exited
\* after an abort, no further call is issued.
C26_NoRollback ==
    /\ [](\A i \in DOMAIN calls : calls[i].op \in CalledOps)
    /\ [][/\ Len(calls') >= Len(calls)
          /\ \A i \in DOMAIN calls :
                /\ calls'[i].op = calls[i].op
                /\ calls'[i].args = calls[i].args
                /\ calls[i].res # "pending" => calls'[i].res = calls[i].res
          /\ (FailedFlowCalls # {} \/ prog = "exited") =>
                 Len(calls') = Len(calls)]_vars

\* C26 witness: the link failed after the branch and the workspace were made
C26_Witness ==
    /\ state = stateError
    /\ \E i \in CallsOf("CreateBranch") : calls[i].res = "ok"
    /\ \E i \in CallsOf("CreateWorkspace") : calls[i].res = "ok"
    /\ \E i \in CallsOf("ConnectWorkspaceToGit") : calls[i].res = "err"

\* the phase in which the result of an operation is awaited
PhaseAwaiting(op) ==
    CASE op = "NewAuthenticator" -> stateInit
      [] op = "ListWorkspaces" -> stateLoadingWorkspaces
      [] op = "GetGitConnection" -> stateLoadingGit
      [] OTHER -> stateExecuting

\* C27: a result message that Update has still to handle finds the session
\* in the phase that awaits it: clientsReadyMsg in Init, workspacesMsg in
\* LoadingWorkspaces, gitConnectionMsg in LoadingGitLink, executionDoneMsg
\* and executionStepMsg in Executing, errMsg in the phase of the call that
\* failed; so none is handled in Done, Error or an input phase.
C27_ResultsInAwaitingPhase ==
    \A m \in ResultMsgs :
        /\ m.type = "clientsReadyMsg" => state = stateInit
        /\ m.type = "workspacesMsg" => state = stateLoadingWorkspaces
        /\ m.type = "gitConnectionMsg" => state = stateLoadingGit
        /\ m.type \in {"executionDoneMsg", "executionStepMsg"} =>
               state = stateExecuting
        /\ m.type = "errMsg" =>
               /\ calls # <<>>
               /\ calls[Len(calls)].res = "err"
               /\ state = PhaseAwaiting(calls[Len(calls)].op)
        /\ state \notin {stateDone, stateError, stateSelectWorkspace,
                         stateEnterBranch, stateEnterWorkspace}

\* C27 witness: the result of the execution sequence waits to be handled
\* while the user has already pressed ctrl+c
C27_Witness ==
    /\ state = stateExecuting
    /\ prog = "running"
    /\ QuitMsg \in inbox
    /\ \E m \in ResultMsgs : m.type = "executionDoneMsg"

\* a resize, a spinner tick, or a key that is neither Enter nor ctrl+c where
\* keys are looked at
PassiveInput ==
    \/ WindowSizeMsg
    \/ SpinnerTick
    \/ KeyIgnored
    \/ KeyNavigate
    \/ KeyEditBranch
    \/ KeyEditWorkspace

\* C28: a resize, a spinner tick or a key other than Enter and ctrl+c,
\* wherever it falls between confirmations and results, leaves the phase, the
\* selected workspace, the recorded error, the progress log, the success
\* summary and the chosen names unchanged, issues no call and sends no
\* message.
C28_PassiveInputChangesNothing ==
    [][PassiveInput =>
          UNCHANGED <<prog, state, selectedDevWorkspace, err, executionInfos,
                      successMsg, newBranchName, newWorkspaceName, clients,
                      workspaces, calls, flow, inbox>>]_vars

\* C28 witness: the list was resized and scrolled and both inputs edited
\* before the sequence ran, and a result is waiting
C28_Witness ==
    /\ lstSize # <<0, 0>>
    /\ lstCursor = 1
    /\ edits = MaxEdits
    /\ wsInput # SetValue(FeaturePrefix \o newBranchName)
    /\ state = stateExecuting
    /\ ResultMsgs # {}

\* ListWorkspaces has answered with no workspace and Update has handled it
EmptyListShown ==
    /\ \E i \in CallsOf("ListWorkspaces") : calls[i].res = "ok"
    /\ \A m \in inbox : m.type # "workspacesMsg"
    /\ workspaces = <<>>

\* C29: an empty workspace list is delivered in LoadingWorkspaces and can be
\* handled there; once handled the phase is SelectWorkspace with no error
\* recorded and no further call, and no step taken there changes the phase:
\* neither Done nor Error is reached.
C29_EmptyListStaysInSelect ==
    /\ [](\A m \in inbox :
            (m.type = "workspacesMsg" /\ m.workspaces = <<>>) =>
                /\ state = stateLoadingWorkspaces
                /\ prog = "running" =>
                       ENABLED (UpdateWorkspacesMsg
                                  /\ state' = stateSelectWorkspace
                                  /\ workspaces' = <<>>))
    /\ [](EmptyListShown =>
            /\ state = stateSelectWorkspace
            /\ err = NoErr
            /\ SelectedItem.nil
            /\ selectedDevWorkspace.nil
            /\ Len(calls) = 2)
    /\ [][EmptyListShown => state' = stateSelectWorkspace]_vars

\* C29 witness: the empty list is shown and the user has resized the window
C29_Witness ==
    /\ EmptyListShown
    /\ prog = "running"
    /\ lstSize # <<0, 0>>
    /\ lstItems = <<>>

\* the error of GetBranchObjectId when no ref matches, as executeFlowCmd
\* wraps it
BranchNotFound == Errorf(StepLabel(1), "branch not found")

\* C30: for the branch step 1 asks for, a repository that lists no matching
\* ref makes GetBranchObjectId return the branch-not-found error and no id;
\* that error reaches the session labelled "getting dev branch commit", with
\* step 1 failed, as the last call, and no CreateBranch or CreateWorkspace
\* call in the session.
C30_NoRefFailsStepOne ==
    /\ \A j \in CallsOf("GetBranchObjectId"), refs \in Repositories :
         LET b == calls[j].args.branchName
         IN  RefsResponse(refs, TrimPrefix(b, RefsHeads)) = <<>> =>
                 GetBranchObjectId(refs, b) =
                     [err |-> "branch not found", id |-> ""]
    /\ \A e \in {m.err : m \in ResultMsgs} \cup {err} :
         e.cause = "branch not found" =>
             /\ e.label = "getting dev branch commit"
             /\ calls[Len(calls)].op = "GetBranchObjectId"
             /\ calls[Len(calls)].res = "err"
             /\ CallsOf("CreateBranch") = {}
             /\ CallsOf("CreateWorkspace") = {}
             /\ flow.step = 0

\* C30 witness: the session ended in Error on the branch that was not found
C30_Witness ==
    /\ state = stateError
    /\ err = BranchNotFound
    /\ Len(calls) = 4
=============================================================================
